---- MODULE Spec2Model ----
(***************************************************************************)
(* Semantic PostgreSQL MCP server: the natural-language -> SQL pipeline.   *)
(*                                                                         *)
(* Two revisions of the server are in the repository: the full one         *)
(* (src/unnamed/part_000: table and column ranking, SQL written by the     *)
(* completion service) and the earlier one (src/Index.js: column ranking   *)
(* only, SQL built from a template).  The variable impl says which one is  *)
(* deployed.  A request is one call of a tool (execute_query or one of the *)
(* find_similar tools); it advances one await at a time, so requests       *)
(* interleave at their awaits only.  The startup routine (connect, fill in *)
(* missing column embeddings, listen) has a specification of its own.      *)
(*                                                                         *)
(* Strings are sequences of tokens: a keyword, an identifier, ";", a       *)
(* whitespace token or a code fence.  String.prototype.trim is modelled on *)
(* this representation by what it does.                                    *)
(***************************************************************************)
EXTENDS Integers, Sequences, FiniteSets, TLC

VARIABLES
    impl,             \* which revision is deployed: "part_000" or "Index"
    table_metadata,   \* rows of the table_metadata relation
    column_metadata,  \* rows of the column_metadata relation
    tool,             \* per request: request.name, the tool that was called
    pc,               \* per request: the await the request is suspended at
    query,            \* per request: natural_language_query
    sqlStatement,     \* per request: sql_statement (undefined when absent)
    databaseSchema,   \* per request: local of semanticSQLExecute
    queryEmbedding,   \* per request: local of findSimilarTables/Columns
    similarTables,    \* per request: local of semanticSQLExecute
    similarColumns,   \* per request: local of semanticSQLExecute
    generatedSQL,     \* per request: local of semanticSQLExecute
    outcome,          \* per request: what semanticSQLExecute returned/threw
    response,         \* per request: what the tool handler returned
    log,              \* per request: the external calls made, in order
    phase,            \* where the startup routine is, "serving" once it listens
    missing,          \* startup: the rows of metadataResult still to be visited
    rowEmbedding,     \* startup: the embedding awaiting its UPDATE
    bootLog           \* startup: the external calls made, in order

storeVars == <<impl, table_metadata, column_metadata>>
bootVars == <<phase, missing, rowEmbedding, bootLog>>
reqVars == <<tool, pc, query, sqlStatement, databaseSchema, queryEmbedding,
             similarTables, similarColumns, generatedSQL, outcome, response>>
vars == <<storeVars, reqVars, log, bootVars>>

----------------------------------------------------------------------------
(* Bounds of the model *)

\* the relational store returns between 0 and MaxRows rows for a statement
MaxRows == 2

(* Program constants *)

\* LIMIT of the table ranking query
TableLimit == 5
\* LIMIT of the column ranking query, full revision
ColumnLimit == 10
\* LIMIT of the column ranking query, earlier revision
IndexColumnLimit == 5

----------------------------------------------------------------------------
(* Strings as token sequences *)

Whitespace == {" ", "\n"}

\* the value of an argument that was not passed
undefined == <<"<undefined>">>

RECURSIVE TrimStart(_)
TrimStart(s) ==
    IF s # <<>> /\ Head(s) \in Whitespace THEN TrimStart(Tail(s)) ELSE s

RECURSIVE TrimEnd(_)
TrimEnd(s) ==
    IF s # <<>> /\ s[Len(s)] \in Whitespace
    THEN TrimEnd(SubSeq(s, 1, Len(s) - 1))
    ELSE s

\* String.prototype.trim
Trim(s) == TrimEnd(TrimStart(s))

\* JavaScript truthiness of a string-or-undefined value
Truthy(s) == s # undefined /\ s # <<>>

----------------------------------------------------------------------------
(* The relational store: the two metadata relations *)

\* SQL NULL in a text column, and as seen by JavaScript
null == "<null>"

\* SQL NULL in a vector column; also the null generateEmbedding returns
NullVec == <<>>

TableRow(t, d, e) == [table_name |-> t, description |-> d, embedding |-> e]

ColumnRow(t, c, ty, d, e) ==
    [table_name |-> t, column_name |-> c, data_type |-> ty,
     description |-> d, embedding |-> e]

\* a store whose metadata relations are empty
EmptyStore == [tables |-> <<>>, columns |-> <<>>]

\* the sample shop schema, every descriptor embedded
ShopStore ==
    [tables |-> << TableRow("customers", "customer information", <<1, 0>>),
                   TableRow("orders", "", <<0, 1>>) >>,
     columns |-> << ColumnRow("orders", "total_amount", "DECIMAL", "order total", <<0, 1>>),
                    ColumnRow("customers", "email", "VARCHAR", "contact email", <<1, 0>>),
                    ColumnRow("customers", "phone", "VARCHAR", null, <<1, 0>>) >>]

\* the same schema before the embeddings of some descriptors were filled in
PartialStore ==
    [tables |-> << TableRow("customers", "customer information", <<1, 0>>),
                   TableRow("orders", null, NullVec) >>,
     columns |-> << ColumnRow("orders", "total_amount", "DECIMAL", "order total", NullVec),
                    ColumnRow("customers", "email", "VARCHAR", "contact email", <<1, 0>>) >>]

\* a schema with one archive table per year, named by the year
ArchiveStore ==
    [tables |-> << TableRow("2024", "orders of 2024", <<1, 0>>),
                   TableRow("2023", "orders of 2023", <<0, 1>>),
                   TableRow("customers", "customer information", <<-1, 0>>) >>,
     columns |-> << ColumnRow("2024", "total_amount", "DECIMAL", "order total", <<1, 0>>),
                    ColumnRow("2023", "total_amount", "DECIMAL", "order total", <<0, 1>>),
                    ColumnRow("customers", "email", "VARCHAR", "contact email", <<-1, 0>>) >>]

Stores == {EmptyStore, ShopStore, PartialStore, ArchiveStore}

\* a catalogue with more tables than the table ranking returns and more columns
\* than the column ranking returns; some descriptors not embedded yet
CatalogStore ==
    [tables |-> << TableRow("t1", null, NullVec),
                   TableRow("t2", "second", <<1, 0>>),
                   TableRow("t3", "third", <<0, 1>>),
                   TableRow("t4", "fourth", <<1, 0>>),
                   TableRow("t5", "fifth", <<0, 1>>),
                   TableRow("t6", "sixth", <<-1, 0>>) >>,
     columns |-> << ColumnRow("t1", "c1", "INT", null, NullVec),
                    ColumnRow("t2", "c2", "INT", "a", <<1, 0>>),
                    ColumnRow("t3", "c3", "INT", "b", <<0, 1>>),
                    ColumnRow("t1", "c4", "INT", null, NullVec),
                    ColumnRow("t2", "c5", "INT", "a", <<1, 0>>),
                    ColumnRow("t3", "c6", "INT", "b", <<0, 1>>),
                    ColumnRow("t1", "c7", "INT", null, NullVec),
                    ColumnRow("t2", "c8", "INT", "a", <<1, 0>>),
                    ColumnRow("t3", "c9", "INT", "b", <<0, 1>>),
                    ColumnRow("t6", "c10", "INT", "c", <<-1, 0>>),
                    ColumnRow("t6", "c11", "INT", "d", <<0, -1>>) >>]

RankStores == Stores \cup {CatalogStore}

----------------------------------------------------------------------------
(* Vector similarity, as the store's vector extension computes it *)

\* embeddings are unit vectors of two components, so the cosine of two of them
\* is their dot product
Dot(a, b) == a[1] * b[1] + a[2] * b[2]

\* the <=> operator on unit vectors; NULL when an operand is NULL
CosineDistance(a, b) == IF a = NullVec \/ b = NullVec THEN <<>> ELSE <<1 - Dot(a, b)>>

\* 1 - (embedding <=> $1::vector); <<>> is SQL NULL, <<v>> the number v
Similarity(embedding, q) ==
    LET d == CosineDistance(embedding, q)
    IN  IF d = <<>> THEN <<>> ELSE <<1 - d[1]>>

\* ORDER BY similarity DESC: NULLs sort first, then larger values first
SortsNoLaterThan(a, b) == a = <<>> \/ (b # <<>> /\ a[1] >= b[1])

\* LIMIT k keeps the first k rows, or all of them when there are fewer
MinNoLimit(a, b) == b

Min(a, b) == IF a <= b THEN a ELSE b

\* the select lists of the three ranking queries
TableSelect(row, sim) ==
    [table_name |-> row.table_name, description |-> row.description,
     similarity |-> sim]

ColumnSelect(row, sim) ==
    [table_name |-> row.table_name, column_name |-> row.column_name,
     description |-> row.description, data_type |-> row.data_type,
     similarity |-> sim]

IndexColumnSelect(row, sim) ==
    [table_name |-> row.table_name, column_name |-> row.column_name,
     description |-> row.description, similarity |-> sim]

\* the rows of rel with the select list applied, in the relation's own order
\* (SELECT ..., 1 - (embedding <=> q) AS similarity FROM rel)
TableScores(rel, q) ==
    [i \in 1..Len(rel) |-> TableSelect(rel[i], Similarity(rel[i].embedding, q))]

ColumnScores(rel, q) ==
    [i \in 1..Len(rel) |-> ColumnSelect(rel[i], Similarity(rel[i].embedding, q))]

IndexColumnScores(rel, q) ==
    [i \in 1..Len(rel) |-> IndexColumnSelect(rel[i], Similarity(rel[i].embedding, q))]

RECURSIVE RankFrom(_, _, _)
\* the row sequences of at most k rows that ORDER BY similarity DESC may put
\* first, drawn from the rows of scored whose positions are in remaining
RankFrom(scored, remaining, k) ==
    IF k = 0 \/ remaining = {}
    THEN {<<>>}
    ELSE LET first == {i \in remaining :
                         \A j \in remaining :
                            SortsNoLaterThan(scored[i].similarity, scored[j].similarity)}
         IN  UNION {{<<scored[i]>> \o rest : rest \in RankFrom(scored, remaining \ {i}, k - 1)} :
                      i \in first}

\* ORDER BY similarity DESC LIMIT k: every row sequence the store may return;
\* the query names no second sort key, so rows of equal similarity come in any
\* order
RankedRows(scored, k) ==
    UNION {RankFrom(rows, 1..Len(rows), Min(k, Len(rows))) : rows \in {scored}}

----------------------------------------------------------------------------
(* The callers and the external services *)

\* the execute_query calls in flight
Reqs == {"r1", "r2"}

Queries == {"show me all customers", "order totals"}

\* what the embedding service answers for a text when it answers
EmbeddingOf(text) == IF text = "show me all customers" THEN <<1, 0>> ELSE <<0, 1>>

SelectStmt == <<"SELECT", "customers", ";">>
DropStmt == <<"DROP", "customers", ";">>
MultiStmt == <<"SELECT", "1", ";", "DROP", "customers", ";">>

\* values of the sql_statement parameter
DirectStatements ==
    {undefined, <<>>, <<" ">>, SelectStmt, <<" ">> \o SelectStmt, DropStmt,
     <<"DELETE", "orders", ";">>, MultiStmt}

\* the marker that opens or closes a fenced code block (three backquotes)
Fence == "[fence]"

DestructiveKeywords ==
    {"DELETE", "DROP", "UPDATE", "INSERT", "ALTER", "TRUNCATE", "GRANT", "REVOKE"}

\* texts the completion service may answer with
Responses ==
    {SelectStmt, <<" ", "\n">> \o SelectStmt \o <<"\n">>, MultiStmt,
     <<Fence, "\n">> \o SelectStmt \o <<"\n", Fence>>,
     <<"delete", "orders", ";">>}
    \cup {<<k, "orders", ";">> : k \in DestructiveKeywords}

\* messages of the errors the completion call may raise
ApiErrors == {"529 overloaded"}

\* messages of the errors the relational store may raise
DbErrors == {"relation does not exist", "permission denied"}

\* result rows of a statement
RowSets == {[i \in 1..n |-> i] : n \in 0..MaxRows}

NoOutcome == [pending |-> TRUE]

Event(svc, arg, ok, res) == [svc |-> svc, arg |-> arg, ok |-> ok, res |-> res]

----------------------------------------------------------------------------
(* generateEmbedding, findSimilarTables, findSimilarColumns *)

\* generateEmbedding with a catch that returns a vector of zeros instead of null
generateEmbeddingZeros(text, ok) == IF ok THEN EmbeddingOf(text) ELSE <<0, 0>>

\* generateEmbedding: the vector, or null when the call raised
generateEmbedding(text, ok) == IF ok THEN EmbeddingOf(text) ELSE NullVec

\* findSimilar* without the test of the embedding
NoEmbeddingUnchecked(v) == FALSE

\* the test  !queryEmbedding
NoEmbedding(v) == v = NullVec

\* the column ranking's select list and limit in the deployed revision
ColumnRanking(q) ==
    IF impl = "part_000"
    THEN RankedRows(ColumnScores(column_metadata, q), ColumnLimit)
    ELSE RankedRows(IndexColumnScores(column_metadata, q), IndexColumnLimit)

TableRanking(q) == RankedRows(TableScores(table_metadata, q), TableLimit)

----------------------------------------------------------------------------
(* generateSQLWithClaude: the schema context and the prompt *)

\* a group description that is never looked up
TableDescriptionBlank(schema, name) == ""

\* databaseSchema.tables.find(t => t.table_name === name)?.description || ""
TableDescription(schema, name) ==
    LET hits == {i \in 1..Len(schema.tables) : schema.tables[i].table_name = name}
        first == CHOOSE i \in hits : \A j \in hits : i <= j
    IN  IF hits = {} \/ schema.tables[first].description = null
        THEN ""
        ELSE schema.tables[first].description

GroupIndex(groups, name) == {i \in 1..Len(groups) : groups[i].name = name}

\* one iteration of the loop over similarColumns
AddColumn(groups, column, schema) ==
    LET opened == IF GroupIndex(groups, column.table_name) = {}
                  THEN Append(groups,
                              [name |-> column.table_name, columns |-> <<>>,
                               description |-> TableDescription(schema, column.table_name)])
                  ELSE groups
        g == CHOOSE i \in GroupIndex(opened, column.table_name) : TRUE
        entry == [name |-> column.column_name, data_type |-> column.data_type,
                  description |-> column.description]
    IN  [opened EXCEPT ![g].columns = Append(@, entry)]

RECURSIVE RelevantTables(_, _)
\* relevantTables after the loop, its groups in the order they were inserted
RelevantTables(columns, schema) ==
    IF columns = <<>>
    THEN <<>>
    ELSE CHOOSE groups \in
            {AddColumn(earlier, columns[Len(columns)], schema) :
               earlier \in {RelevantTables(SubSeq(columns, 1, Len(columns) - 1), schema)}} : TRUE

\* the number a property key denotes when it is an array index (the canonical
\* text of a non-negative integer), -1 for every other key
ArrayIndex(key) ==
    CASE key = "2023" -> 2023
      [] key = "2024" -> 2024
      [] OTHER -> -1

RECURSIVE Ascending(_, _)
\* the groups at the positions in indices, by ascending array index of their name
Ascending(groups, indices) ==
    IF indices = {}
    THEN <<>>
    ELSE LET least == CHOOSE i \in indices :
                         \A j \in indices :
                            ArrayIndex(groups[i].name) <= ArrayIndex(groups[j].name)
         IN  <<groups[least]>> \o Ascending(groups, indices \ {least})

\* the groups in insertion order, whatever their names
ObjectValuesInsertionOrder(groups) == groups

\* Object.values(relevantTables): the values of the array-index keys in
\* ascending numeric order, then those of the other keys in insertion order
ObjectValues(groups) ==
    LET IsIndex(g) == ArrayIndex(g.name) >= 0
        IsName(g) == ArrayIndex(g.name) < 0
    IN  Ascending(groups, {i \in 1..Len(groups) : IsIndex(groups[i])})
           \o SelectSeq(groups, IsName)

\* keys that every plain object inherits from Object.prototype:
\* relevantTables[key] is truthy for them although no group was stored
InheritedKeys == {"constructor", "toString", "valueOf", "hasOwnProperty", "__proto__"}

\* message of the TypeError of relevantTables[name].columns.push(...) when
\* relevantTables[name] is an inherited value, which has no columns
TypeErrorMessage == "Cannot read properties of undefined (reading 'push')"

\* the loop over similarColumns throws: a column of a table whose name is an
\* inherited key opens no group (!relevantTables[name] is false), and the push
\* into the columns of the inherited value fails
AssemblyThrows(columns) ==
    \E i \in 1..Len(columns) : columns[i].table_name \in InheritedKeys

\* the prompt when relevantTables is one object kept across calls: the columns
\* of the calls already made are still in it
PromptAccumulated(userQuery, columns, schema) ==
    LET made == {r \in Reqs : \E i \in 1..Len(log[r]) : log[r][i].svc = "completion"}
        kept(r) == IF r \in made THEN similarColumns[r] ELSE <<>>
    IN  [userQuery |-> userQuery,
         tables |-> ObjectValues(RelevantTables(kept("r1") \o kept("r2") \o columns, schema))]

\* the prompt sent to the completion service
Prompt(userQuery, columns, schema) ==
    CHOOSE prompt \in {[userQuery |-> userQuery, tables |-> ObjectValues(relevantTables)] :
                          relevantTables \in {RelevantTables(columns, schema)}} : TRUE

\* response.content[0].text.trim()
ExtractSQL(text) == Trim(text)

\* the rethrown Error without the message of its cause
GenerationErrorNoMessage(msg) == <<"Failed to generate SQL">>

\* the Error that generateSQLWithClaude throws from its catch
GenerationError(msg) == <<"Failed to generate SQL: ", msg>>

----------------------------------------------------------------------------
(* semanticSQLExecute: conditions and returned objects *)

\* the direct path taken only for a statement without surrounding whitespace
DirectSQLProvidedUntrimmed(stmt) == Truthy(stmt) /\ stmt = Trim(stmt)

\* the direct path taken for every non-empty string
DirectSQLProvidedNoTrim(stmt) == Truthy(stmt)

\* sqlStatement && sqlStatement.trim()
DirectSQLProvided(stmt) == Truthy(stmt) /\ Truthy(Trim(stmt))

\* similarColumns.length > 0
HasColumns(columns) == Len(columns) > 0

\* `SELECT * FROM ${topColumn.table_name} LIMIT 10;`
TemplateSQL(columns) == <<"SELECT", "*", "FROM", columns[1].table_name, "LIMIT", "10", ";">>

\* the success object with the similarity metadata left empty
SuccessResultNoMetadata(rows, tables, columns, stmt) ==
    IF impl = "part_000"
    THEN [results |-> rows, similarTables |-> <<>>, similarColumns |-> <<>>,
          executedQuery |-> stmt]
    ELSE [results |-> rows, similarColumns |-> <<>>, executedQuery |-> stmt]

\* the object returned when the statement ran
SuccessResult(rows, tables, columns, stmt) ==
    IF impl = "part_000"
    THEN [results |-> rows, similarTables |-> tables, similarColumns |-> columns,
          executedQuery |-> stmt]
    ELSE [results |-> rows, similarColumns |-> columns, executedQuery |-> stmt]

\* the same object when the columns had lost their scores on the way
GeneratedSQLErrorResultNoScores(msg, tables, columns, stmt) ==
    [results |-> <<>>, similarTables |-> tables,
     similarColumns |-> [i \in 1..Len(columns) |-> [columns[i] EXCEPT !.similarity = <<>>]],
     error |-> <<"Error executing generated SQL: ", msg>>, generatedQuery |-> stmt]

\* the object returned from the catch around the generated statement
GeneratedSQLErrorResult(msg, tables, columns, stmt) ==
    [results |-> <<>>, similarTables |-> tables, similarColumns |-> columns,
     error |-> <<"Error executing generated SQL: ", msg>>, generatedQuery |-> stmt]

\* the fallback object without its error
NoDataResultNoError(tables, columns) ==
    [results |-> <<>>, similarTables |-> tables, similarColumns |-> columns]

\* the object returned when there is neither a statement nor a ranked column
NoDataResult(tables, columns) ==
    IF impl = "part_000"
    THEN [results |-> <<>>, similarTables |-> tables, similarColumns |-> columns,
          error |-> <<"Could not determine which data to query.">>]
    ELSE [results |-> <<>>, similarColumns |-> <<>>,
          error |-> <<"Could not determine which data to query.">>]

\* the outermost catch rethrowing instead of returning
OuterCatchRethrow(message) == [thrown |-> message]

\* the object returned from the outermost catch; message is err.message
OuterCatchResult(message) == [results |-> <<>>, error |-> message]

\* the execute_query branch of the tool handler
HandlerReturn(o) ==
    IF "thrown" \in DOMAIN o THEN [error |-> o.thrown] ELSE [result |-> o]

----------------------------------------------------------------------------
(* Initial state *)

EmptySchema == [tables |-> <<>>, columns |-> <<>>]

\* no request has been received
NoRequests ==
    /\ tool = [r \in Reqs |-> ""]
    /\ pc = [r \in Reqs |-> "idle"]
    /\ query = [r \in Reqs |-> ""]
    /\ sqlStatement = [r \in Reqs |-> undefined]
    /\ databaseSchema = [r \in Reqs |-> EmptySchema]
    /\ queryEmbedding = [r \in Reqs |-> NullVec]
    /\ similarTables = [r \in Reqs |-> <<>>]
    /\ similarColumns = [r \in Reqs |-> <<>>]
    /\ generatedSQL = [r \in Reqs |-> <<>>]
    /\ outcome = [r \in Reqs |-> NoOutcome]
    /\ response = [r \in Reqs |-> NoOutcome]
    /\ log = [r \in Reqs |-> <<>>]

\* server.listen has been called
Listening ==
    /\ phase = "serving"
    /\ missing = <<>>
    /\ rowEmbedding = NullVec
    /\ bootLog = <<>>

\* the process has just been started over one of the stores
StartInit ==
    /\ impl \in {"part_000", "Index"}
    /\ \E store \in RankStores :
          /\ table_metadata = store.tables
          /\ column_metadata = store.columns
    /\ NoRequests
    /\ phase = "connecting"
    /\ missing = <<>>
    /\ rowEmbedding = NullVec
    /\ bootLog = <<>>

InitFrom(stores) ==
    /\ impl \in {"part_000", "Index"}
    /\ \E store \in stores :
          /\ table_metadata = store.tables
          /\ column_metadata = store.columns
    /\ Listening
    /\ NoRequests

Init == InitFrom(Stores)

\* the same, over the stores with more rows than the rankings return
RankInit == InitFrom(RankStores)

----------------------------------------------------------------------------
(* Steps of a request *)

Logged(r, e) == log' = [log EXCEPT ![r] = Append(@, e)]

Goto(r, label) == pc' = [pc EXCEPT ![r] = label]

\* the same when the returned object is kept in one place for all requests
FinishShared(r, o) ==
    /\ outcome' = [q \in Reqs |-> IF pc[q] = "idle" THEN outcome[q] ELSE o]
    /\ response' = [q \in Reqs |-> IF pc[q] = "idle" THEN response[q] ELSE HandlerReturn(o)]
    /\ Goto(r, "done")

\* semanticSQLExecute returns o (or throws) and the tool handler answers
Finish(r, o) ==
    /\ outcome' = [outcome EXCEPT ![r] = o]
    /\ response' = [response EXCEPT ![r] = HandlerReturn(o)]
    /\ Goto(r, "done")

\* the same with the direct statement looked at first, before any read
ExecuteToolRequestDirectFirst(r) ==
    /\ phase = "serving"
    /\ pc[r] = "idle"
    /\ \E q \in Queries, stmt \in DirectStatements :
          /\ query' = [query EXCEPT ![r] = q]
          /\ sqlStatement' = [sqlStatement EXCEPT ![r] = stmt]
          /\ Goto(r, IF DirectSQLProvided(stmt) THEN "executeDirect"
                      ELSE IF impl = "part_000" THEN "schemaTables" ELSE "embedColumns")
    /\ tool' = [tool EXCEPT ![r] = "execute_query"]
    /\ UNCHANGED <<storeVars, bootVars, databaseSchema, queryEmbedding, similarTables,
                   similarColumns, generatedSQL, outcome, response, log>>

\* the tool handler receives an execute_query call and enters semanticSQLExecute
ExecuteToolRequest(r) ==
    /\ phase = "serving"
    /\ pc[r] = "idle"
    /\ \E q \in Queries, stmt \in DirectStatements :
          /\ query' = [query EXCEPT ![r] = q]
          /\ sqlStatement' = [sqlStatement EXCEPT ![r] = stmt]
    /\ tool' = [tool EXCEPT ![r] = "execute_query"]
    /\ Goto(r, IF impl = "part_000" THEN "schemaTables" ELSE "embedColumns")
    /\ UNCHANGED <<storeVars, bootVars, databaseSchema, queryEmbedding, similarTables,
                   similarColumns, generatedSQL, outcome, response, log>>

\* SELECT table_name, description, primary_key_column FROM table_metadata
SchemaTableRows ==
    [i \in 1..Len(table_metadata) |->
        [table_name |-> table_metadata[i].table_name,
         description |-> table_metadata[i].description]]

\* SELECT table_name, column_name, data_type, description, ... FROM column_metadata
SchemaColumnRows ==
    [i \in 1..Len(column_metadata) |->
        [table_name |-> column_metadata[i].table_name,
         column_name |-> column_metadata[i].column_name,
         data_type |-> column_metadata[i].data_type,
         description |-> column_metadata[i].description]]

\* getDatabaseSchema without its catch: a failed first query fails the request
SchemaTablesQueryThrows(r) ==
    /\ pc[r] = "schemaTables"
    /\ \/ /\ databaseSchema' = [databaseSchema EXCEPT ![r].tables = SchemaTableRows]
          /\ Logged(r, Event("schema", "table_metadata", TRUE, SchemaTableRows))
          /\ Goto(r, "schemaColumns")
          /\ UNCHANGED <<outcome, response>>
       \/ \E msg \in DbErrors :
          /\ Logged(r, Event("schema", "table_metadata", FALSE, msg))
          /\ Finish(r, OuterCatchResult(<<msg>>))
          /\ UNCHANGED databaseSchema
    /\ UNCHANGED <<storeVars, bootVars, tool, query, sqlStatement, queryEmbedding,
                   similarTables, similarColumns, generatedSQL>>

\* getDatabaseSchema: the first query resolves
SchemaTablesQuery(r) ==
    /\ pc[r] = "schemaTables"
    /\ \/ /\ databaseSchema' = [databaseSchema EXCEPT ![r].tables = SchemaTableRows]
          /\ Logged(r, Event("schema", "table_metadata", TRUE, SchemaTableRows))
          /\ Goto(r, "schemaColumns")
       \/ \E msg \in DbErrors :
          /\ databaseSchema' = [databaseSchema EXCEPT ![r] = EmptySchema]
          /\ Logged(r, Event("schema", "table_metadata", FALSE, msg))
          /\ Goto(r, "embedTables")
    /\ UNCHANGED <<storeVars, bootVars, tool, query, sqlStatement, queryEmbedding, similarTables,
                   similarColumns, generatedSQL, outcome, response>>

\* getDatabaseSchema: the second query resolves
SchemaColumnsQuery(r) ==
    /\ pc[r] = "schemaColumns"
    /\ \/ /\ databaseSchema' = [databaseSchema EXCEPT ![r].columns = SchemaColumnRows]
          /\ Logged(r, Event("schema", "column_metadata", TRUE, SchemaColumnRows))
       \/ \E msg \in DbErrors :
          /\ databaseSchema' = [databaseSchema EXCEPT ![r] = EmptySchema]
          /\ Logged(r, Event("schema", "column_metadata", FALSE, msg))
    /\ Goto(r, "embedTables")
    /\ UNCHANGED <<storeVars, bootVars, tool, query, sqlStatement, queryEmbedding, similarTables,
                   similarColumns, generatedSQL, outcome, response>>

\* findSimilarTables: generateEmbedding resolves
EmbedForTables(r) ==
    /\ pc[r] = "embedTables"
    /\ \E ok \in BOOLEAN :
          LET v == generateEmbedding(query[r], ok)
          IN  /\ Logged(r, Event("embedding", query[r], ok, v))
              /\ queryEmbedding' = [queryEmbedding EXCEPT ![r] = v]
              /\ IF NoEmbedding(v)
                 THEN /\ similarTables' = [similarTables EXCEPT ![r] = <<>>]
                      /\ Goto(r, "embedColumns")
                 ELSE /\ UNCHANGED similarTables
                      /\ Goto(r, "rankTables")
    /\ UNCHANGED <<storeVars, bootVars, tool, query, sqlStatement, databaseSchema, similarColumns,
                   generatedSQL, outcome, response>>

\* findSimilarTables: the ranking query resolves
RankTables(r) ==
    /\ pc[r] = "rankTables"
    /\ \/ \E rows \in TableRanking(queryEmbedding[r]) :
          /\ similarTables' = [similarTables EXCEPT ![r] = rows]
          /\ Logged(r, Event("similarity", "table_metadata", TRUE, rows))
       \/ \E msg \in DbErrors :
          /\ similarTables' = [similarTables EXCEPT ![r] = <<>>]
          /\ Logged(r, Event("similarity", "table_metadata", FALSE, msg))
    /\ Goto(r, "embedColumns")
    /\ UNCHANGED <<storeVars, bootVars, tool, query, sqlStatement, databaseSchema, queryEmbedding,
                   similarColumns, generatedSQL, outcome, response>>

\* semanticSQLExecute once findSimilarColumns has returned columns: up to the
\* next await, or to the return
AfterRanking(r, columns) ==
    /\ similarColumns' = [similarColumns EXCEPT ![r] = columns]
    /\ IF DirectSQLProvided(sqlStatement[r])
       THEN /\ Goto(r, "executeDirect")
            /\ UNCHANGED <<generatedSQL, outcome, response>>
       ELSE IF HasColumns(columns)
       THEN IF impl = "part_000"
            THEN /\ Goto(r, "complete")
                 /\ UNCHANGED <<generatedSQL, outcome, response>>
            ELSE /\ generatedSQL' = [generatedSQL EXCEPT ![r] = TemplateSQL(columns)]
                 /\ Goto(r, "executeGenerated")
                 /\ UNCHANGED <<outcome, response>>
       ELSE /\ Finish(r, NoDataResult(similarTables[r], columns))
            /\ UNCHANGED generatedSQL

\* findSimilarColumns: generateEmbedding resolves
EmbedForColumns(r) ==
    /\ pc[r] = "embedColumns"
    /\ \E ok \in BOOLEAN :
          LET v == generateEmbedding(query[r], ok)
          IN  /\ Logged(r, Event("embedding", query[r], ok, v))
              /\ queryEmbedding' = [queryEmbedding EXCEPT ![r] = v]
              /\ IF NoEmbedding(v)
                 THEN AfterRanking(r, <<>>)
                 ELSE /\ Goto(r, "rankColumns")
                      /\ UNCHANGED <<similarColumns, generatedSQL, outcome, response>>
    /\ UNCHANGED <<storeVars, bootVars, tool, query, sqlStatement, databaseSchema, similarTables>>

\* findSimilarColumns: the ranking query resolves
RankColumns(r) ==
    /\ pc[r] = "rankColumns"
    /\ \/ \E rows \in ColumnRanking(queryEmbedding[r]) :
          /\ Logged(r, Event("similarity", "column_metadata", TRUE, rows))
          /\ AfterRanking(r, rows)
       \/ \E msg \in DbErrors :
          /\ Logged(r, Event("similarity", "column_metadata", FALSE, msg))
          /\ AfterRanking(r, <<>>)
    /\ UNCHANGED <<storeVars, bootVars, tool, query, sqlStatement, databaseSchema, queryEmbedding,
                   similarTables>>

\* pgClient.query(sqlStatement) resolves
ExecuteDirect(r) ==
    /\ pc[r] = "executeDirect"
    /\ \/ \E rows \in RowSets :
          /\ Logged(r, Event("execute", sqlStatement[r], TRUE, rows))
          /\ Finish(r, SuccessResult(rows, similarTables[r], similarColumns[r],
                                     sqlStatement[r]))
       \/ \E msg \in DbErrors :
          /\ Logged(r, Event("execute", sqlStatement[r], FALSE, msg))
          /\ Finish(r, OuterCatchResult(<<msg>>))
    /\ UNCHANGED <<storeVars, bootVars, tool, query, sqlStatement, databaseSchema, queryEmbedding,
                   similarTables, similarColumns, generatedSQL>>

\* generateSQLWithClaude: anthropic.messages.create resolves
CallClaude(r) ==
    /\ pc[r] = "complete"
    /\ IF AssemblyThrows(similarColumns[r])
       THEN /\ Finish(r, OuterCatchResult(GenerationError(TypeErrorMessage)))
            /\ UNCHANGED <<generatedSQL, log>>
       ELSE LET prompt == Prompt(query[r], similarColumns[r], databaseSchema[r])
            IN  \/ \E text \in Responses :
                   /\ Logged(r, Event("completion", prompt, TRUE, text))
                   /\ generatedSQL' = [generatedSQL EXCEPT ![r] = ExtractSQL(text)]
                   /\ Goto(r, "executeGenerated")
                   /\ UNCHANGED <<outcome, response>>
                \/ \E msg \in ApiErrors :
                   /\ Logged(r, Event("completion", prompt, FALSE, msg))
                   /\ Finish(r, OuterCatchResult(GenerationError(msg)))
                   /\ UNCHANGED generatedSQL
    /\ UNCHANGED <<storeVars, bootVars, tool, query, sqlStatement, databaseSchema, queryEmbedding,
                   similarTables, similarColumns>>

\* pgClient.query(generatedSQL) resolves
ExecuteGenerated(r) ==
    /\ pc[r] = "executeGenerated"
    /\ \/ \E rows \in RowSets :
          /\ Logged(r, Event("execute", generatedSQL[r], TRUE, rows))
          /\ Finish(r, SuccessResult(rows, similarTables[r], similarColumns[r],
                                     generatedSQL[r]))
       \/ \E msg \in DbErrors :
          /\ Logged(r, Event("execute", generatedSQL[r], FALSE, msg))
          /\ Finish(r, IF impl = "part_000"
                       THEN GeneratedSQLErrorResult(msg, similarTables[r],
                                                    similarColumns[r], generatedSQL[r])
                       ELSE OuterCatchResult(<<msg>>))
    /\ UNCHANGED <<storeVars, bootVars, tool, query, sqlStatement, databaseSchema, queryEmbedding,
                   similarTables, similarColumns, generatedSQL>>

Step(r) ==
    \/ ExecuteToolRequest(r)
    \/ SchemaTablesQuery(r)
    \/ SchemaColumnsQuery(r)
    \/ EmbedForTables(r)
    \/ RankTables(r)
    \/ EmbedForColumns(r)
    \/ RankColumns(r)
    \/ ExecuteDirect(r)
    \/ CallClaude(r)
    \/ ExecuteGenerated(r)

\* the tool handler receives a find_similar_tables or a find_similar_columns
\* call; the earlier revision declares only find_similar_columns, and its
\* handler is taken to call findSimilarColumns as the later one does
FindSimilarRequest(r) ==
    /\ phase = "serving"
    /\ pc[r] = "idle"
    /\ \E name \in IF impl = "part_000"
                    THEN {"find_similar_tables", "find_similar_columns"}
                    ELSE {"find_similar_columns"},
          description \in Queries :
          /\ tool' = [tool EXCEPT ![r] = name]
          /\ query' = [query EXCEPT ![r] = description]
          /\ Goto(r, IF name = "find_similar_tables"
                      THEN "toolEmbedTables" ELSE "toolEmbedColumns")
    /\ UNCHANGED <<storeVars, bootVars, sqlStatement, databaseSchema, queryEmbedding, similarTables,
                   similarColumns, generatedSQL, outcome, response, log>>

\* return { result: similarTables } and return { result: similarColumns }
ToolResultErrorWhenEmpty(rows) ==
    IF rows = <<>> THEN [error |-> <<"not found">>] ELSE [result |-> rows]

ToolResult(rows) == [result |-> rows]

\* findSimilarTables or findSimilarColumns returns rows to the tool handler
ToolReturn(r, rows) ==
    /\ IF tool[r] = "find_similar_tables"
       THEN /\ similarTables' = [similarTables EXCEPT ![r] = rows]
            /\ UNCHANGED similarColumns
       ELSE /\ similarColumns' = [similarColumns EXCEPT ![r] = rows]
            /\ UNCHANGED similarTables
    /\ response' = [response EXCEPT ![r] = ToolResult(rows)]
    /\ Goto(r, "done")

\* findSimilarTables or findSimilarColumns, called by its tool: generateEmbedding
\* resolves
ToolEmbed(r) ==
    /\ pc[r] \in {"toolEmbedTables", "toolEmbedColumns"}
    /\ \E ok \in BOOLEAN :
          LET v == generateEmbedding(query[r], ok)
          IN  /\ Logged(r, Event("embedding", query[r], ok, v))
              /\ queryEmbedding' = [queryEmbedding EXCEPT ![r] = v]
              /\ IF NoEmbedding(v)
                 THEN ToolReturn(r, <<>>)
                 ELSE /\ Goto(r, IF pc[r] = "toolEmbedTables"
                                  THEN "toolRankTables" ELSE "toolRankColumns")
                      /\ UNCHANGED <<similarTables, similarColumns, response>>
    /\ UNCHANGED <<storeVars, bootVars, tool, query, sqlStatement, databaseSchema, generatedSQL,
                   outcome>>

\* findSimilarTables or findSimilarColumns, called by its tool: the ranking query
\* resolves
ToolRank(r) ==
    /\ pc[r] \in {"toolRankTables", "toolRankColumns"}
    /\ LET rel == IF pc[r] = "toolRankTables" THEN "table_metadata" ELSE "column_metadata"
           ranking == IF pc[r] = "toolRankTables"
                      THEN TableRanking(queryEmbedding[r])
                      ELSE ColumnRanking(queryEmbedding[r])
       IN  \/ \E rows \in ranking :
              /\ Logged(r, Event("similarity", rel, TRUE, rows))
              /\ ToolReturn(r, rows)
           \/ \E msg \in DbErrors :
              /\ Logged(r, Event("similarity", rel, FALSE, msg))
              /\ ToolReturn(r, <<>>)
    /\ UNCHANGED <<storeVars, bootVars, tool, query, sqlStatement, databaseSchema, queryEmbedding,
                   generatedSQL, outcome>>

ToolStep(r) ==
    \/ FindSimilarRequest(r)
    \/ ToolEmbed(r)
    \/ ToolRank(r)

\* the text embedded for a column without embedding:
\* `Table: ${table_name}, Column: ${column_name}, Description: ${description}`
DescriptorText(row) ==
    ToString(<<"Table: ", row.table_name, ", Column: ", row.column_name,
               ", Description: ", row.description>>)

\* the same query without its WHERE clause
AllColumnRows == [i \in 1..Len(column_metadata) |-> i]

\* SELECT ... FROM column_metadata WHERE embedding IS NULL: the rows, by their
\* place in the relation
MissingColumnRows ==
    SelectSeq([i \in 1..Len(column_metadata) |-> i],
              LAMBDA i : column_metadata[i].embedding = NullVec)

Booted(e) == bootLog' = Append(bootLog, e)

\* a catch that logs the failure and goes on to listen
ExitSkipped ==
    /\ phase' = "serving"
    /\ UNCHANGED <<missing, rowEmbedding>>

\* process.exit(1)
Exit ==
    /\ phase' = "exited"
    /\ UNCHANGED <<missing, rowEmbedding>>

\* initDatabase: pgClient.connect resolves
Connect ==
    /\ phase = "connecting"
    /\ \/ /\ Booted(Event("connect", "", TRUE, ""))
          /\ phase' = "backfillQuery"
          /\ UNCHANGED <<missing, rowEmbedding>>
       \/ \E msg \in DbErrors :
          /\ Booted(Event("connect", "", FALSE, msg))
          /\ Exit
    /\ UNCHANGED <<storeVars, reqVars, log>>

\* the query for the columns without embedding resolves
BackfillQuery ==
    /\ phase = "backfillQuery"
    /\ \/ /\ Booted(Event("missing", "column_metadata", TRUE, MissingColumnRows))
          /\ missing' = MissingColumnRows
          /\ phase' = "backfill"
          /\ UNCHANGED rowEmbedding
       \/ \E msg \in DbErrors :
          /\ Booted(Event("missing", "column_metadata", FALSE, msg))
          /\ Exit
    /\ UNCHANGED <<storeVars, reqVars, log>>

\* the loop over metadataResult.rows: generateEmbedding resolves for the next row
BackfillEmbed ==
    /\ phase = "backfill"
    /\ missing # <<>>
    /\ \E ok \in BOOLEAN :
          LET text == DescriptorText(column_metadata[Head(missing)])
              v == generateEmbedding(text, ok)
          IN  /\ Booted(Event("embedding", text, ok, v))
              /\ IF NoEmbedding(v)
                 THEN /\ missing' = Tail(missing)
                      /\ UNCHANGED <<phase, rowEmbedding>>
                 ELSE /\ rowEmbedding' = v
                      /\ phase' = "backfillUpdate"
                      /\ UNCHANGED missing
    /\ UNCHANGED <<storeVars, reqVars, log>>

\* UPDATE column_metadata SET embedding = $1 WHERE id = $2 resolves
BackfillUpdate ==
    /\ phase = "backfillUpdate"
    /\ \/ /\ Booted(Event("update", Head(missing), TRUE, rowEmbedding))
          /\ column_metadata' =
                [column_metadata EXCEPT ![Head(missing)].embedding = rowEmbedding]
          /\ missing' = Tail(missing)
          /\ phase' = "backfill"
          /\ rowEmbedding' = NullVec
       \/ \E msg \in DbErrors :
          /\ Booted(Event("update", Head(missing), FALSE, msg))
          /\ Exit
          /\ UNCHANGED column_metadata
    /\ UNCHANGED <<impl, table_metadata, reqVars, log>>

\* server.listen(transport)
Listen ==
    /\ phase = "backfill"
    /\ missing = <<>>
    /\ phase' = "serving"
    /\ UNCHANGED <<storeVars, reqVars, log, missing, rowEmbedding, bootLog>>

\* the startup routine
Boot ==
    \/ Connect
    \/ BackfillQuery
    \/ BackfillEmbed
    \/ BackfillUpdate
    \/ Listen

StartSpec == StartInit /\ [][Boot]_vars

\* one caller
Next == Step("r1")

Spec == Init /\ [][Next]_vars

\* every await of the request settles: the services answer or fail
FairSpec == Spec /\ WF_vars(Next)

\* one caller of any of the three tools
ToolNext == Step("r1") \/ ToolStep("r1")

ToolSpec == Init /\ [][ToolNext]_vars

\* one caller of the two ranking tools, over the larger catalogue
RankNext == ToolStep("r1")

RankSpec == RankInit /\ [][RankNext]_vars

\* the answers of the services to two concurrent callers, from smaller sets: one
\* query text, the direct statement absent or a SELECT, one completion text, at
\* most one result row, one store error
Narrow ==
    \A r \in Reqs :
       /\ query[r] \in {"", "show me all customers"}
       /\ sqlStatement[r] \in {undefined, SelectStmt}
       /\ \A i \in 1..Len(log[r]) :
             LET e == log[r][i]
             IN  /\ (e.svc = "completion" /\ e.ok) => e.res = SelectStmt
                 /\ (e.svc = "execute" /\ e.ok) => Len(e.res) <= 1
                 /\ (e.svc \in {"schema", "similarity", "execute"} /\ ~e.ok)
                       => e.res = "relation does not exist"

TwoInit == InitFrom({ShopStore})

\* a step of one of two callers of execute_query
TwoStep(r) == Step(r) /\ Narrow'

\* the requests of the two callers interleave at their awaits
TwoNext == TwoStep("r1") \/ TwoStep("r2")

TwoSpec == TwoInit /\ [][TwoNext]_vars

\* generateSQLWithClaude taken as a function of its arguments: the longest
\* list of ranked columns it is called with
MaxColumns == 3

\* rows as findSimilarColumns returns them
RankedColumnRows ==
    {[table_name |-> "customers", column_name |-> "email", data_type |-> "VARCHAR",
      description |-> "contact email", similarity |-> <<1>>],
     [table_name |-> "orders", column_name |-> "total_amount", data_type |-> "DECIMAL",
      description |-> "order total", similarity |-> <<0>>],
     [table_name |-> "2024", column_name |-> "total_amount", data_type |-> "DECIMAL",
      description |-> "order total", similarity |-> <<0>>],
     [table_name |-> "constructor", column_name |-> "name", data_type |-> "VARCHAR",
      description |-> null, similarity |-> <<>>]}

\* the non-empty lists of ranked columns (semanticSQLExecute calls
\* generateSQLWithClaude only when similarColumns.length > 0)
ColumnArguments ==
    UNION {[1..n -> RankedColumnRows] : n \in 1..MaxColumns}

\* lists of ranked tables
TableArguments ==
    {<<>>,
     <<[table_name |-> "customers", description |-> "customer information",
        similarity |-> <<1>>]>>}

\* values of databaseSchema
SchemaArguments ==
    {EmptySchema,
     [tables |-> <<[table_name |-> "customers", description |-> "customer information"],
                   [table_name |-> "orders", description |-> null],
                   [table_name |-> "2024", description |-> ""],
                   [table_name |-> "constructor", description |-> "building firms"]>>,
      columns |-> <<>>]}

\* a request of the full server about to call generateSQLWithClaude with any of
\* these arguments
AssembleInitFor(callers) ==
    /\ impl = "part_000"
    /\ Listening
    /\ table_metadata = EmptyStore.tables
    /\ column_metadata = EmptyStore.columns
    /\ tool = [r \in Reqs |-> IF r \in callers THEN "execute_query" ELSE ""]
    /\ pc = [r \in Reqs |-> IF r \in callers THEN "complete" ELSE "idle"]
    /\ query = [r \in Reqs |-> IF r \in callers THEN "order totals" ELSE ""]
    /\ sqlStatement = [r \in Reqs |-> undefined]
    /\ \E schema \in SchemaArguments :
          databaseSchema = [r \in Reqs |-> IF r \in callers THEN schema ELSE EmptySchema]
    /\ queryEmbedding = [r \in Reqs |-> IF r \in callers THEN EmbeddingOf("order totals") ELSE NullVec]
    /\ \E tables \in TableArguments :
          similarTables = [r \in Reqs |-> IF r \in callers THEN tables ELSE <<>>]
    /\ \E columns \in ColumnArguments :
          similarColumns = [r \in Reqs |-> IF r \in callers THEN columns ELSE <<>>]
    /\ generatedSQL = [r \in Reqs |-> <<>>]
    /\ outcome = [r \in Reqs |-> NoOutcome]
    /\ response = [r \in Reqs |-> NoOutcome]
    /\ log = [r \in Reqs |-> <<>>]

AssembleInit == AssembleInitFor({"r1"})

\* the call and the execution of what it returns
AssembleNext == CallClaude("r1") \/ ExecuteGenerated("r1")

AssembleSpec == AssembleInit /\ [][AssembleNext]_vars

\* generateSQLWithClaude called twice, by two requests, with the same arguments
TwiceInit == AssembleInitFor(Reqs)

TwiceNext == \E r \in Reqs : CallClaude(r)

TwiceSpec == TwiceInit /\ [][TwiceNext]_vars

----------------------------------------------------------------------------
(* Vocabulary of the properties *)

\* the events of one service in the log of request r
Calls(r, svc) == {i \in 1..Len(log[r]) : log[r][i].svc = svc}

Done(r) == pc[r] = "done"

\* a direct SQL statement was supplied and is not blank
NonBlankDirect(r) ==
    /\ sqlStatement[r] # undefined
    /\ \E i \in 1..Len(sqlStatement[r]) : sqlStatement[r][i] \notin Whitespace

UpperCase(token) == IF token = "delete" THEN "DELETE" ELSE token

\* the first word of a statement, case folded
LeadingKeyword(stmt) ==
    LET words == {i \in 1..Len(stmt) : stmt[i] \notin Whitespace}
    IN  IF words = {}
        THEN ""
        ELSE UpperCase(stmt[CHOOSE i \in words : \A j \in words : i <= j])

\* the read-only statement classes the Safety Gate approves
AllowedKeywords == {"SELECT", "WITH"}

\* a statement separator with more text after it
MultiStatement(stmt) ==
    \E i \in 1..Len(stmt) :
        /\ stmt[i] = ";"
        /\ \E j \in (i + 1)..Len(stmt) : stmt[j] \notin Whitespace

\* the four ExecutionOutcome variants, told apart by what the returned object holds
IsSuccess(o) == "executedQuery" \in DOMAIN o /\ "error" \notin DOMAIN o

IsExecutionFailure(o) == "error" \in DOMAIN o /\ "generatedQuery" \in DOMAIN o

IsNoRelevantSchema(o) ==
    /\ "error" \in DOMAIN o
    /\ o.error = <<"Could not determine which data to query.">>
    /\ DOMAIN o \cap {"generatedQuery", "executedQuery"} = {}

IsGenerationFailure(o) ==
    /\ "error" \in DOMAIN o
    /\ o.error # <<"Could not determine which data to query.">>
    /\ DOMAIN o \cap {"generatedQuery", "executedQuery"} = {}

Variants(o) ==
    {v \in {"Success", "ExecutionFailure", "NoRelevantSchema", "GenerationFailure"} :
        \/ v = "Success" /\ IsSuccess(o)
        \/ v = "ExecutionFailure" /\ IsExecutionFailure(o)
        \/ v = "NoRelevantSchema" /\ IsNoRelevantSchema(o)
        \/ v = "GenerationFailure" /\ IsGenerationFailure(o)}

\* semanticSQLExecute returned an object to the handler, it did not throw
Returned(r) ==
    /\ Done(r)
    /\ "thrown" \notin DOMAIN outcome[r]
    /\ response[r] = [result |-> outcome[r]]

\* the statement text appears in the returned object
CarriesStatement(o, stmt) ==
    \/ "generatedQuery" \in DOMAIN o /\ o.generatedQuery = stmt
    \/ "executedQuery" \in DOMAIN o /\ o.executedQuery = stmt

\* the message appears in the error text of the returned object
CarriesMessage(o, msg) ==
    /\ "error" \in DOMAIN o
    /\ \E i \in 1..Len(o.error) : o.error[i] = msg

\* every embedding call the request has made failed, and it made one
EmbeddingFailed(r) ==
    /\ Calls(r, "embedding") # {}
    /\ \A i \in Calls(r, "embedding") : ~log[r][i].ok

----------------------------------------------------------------------------
(* Safety Gate *)

\* C1: in a request without a direct SQL statement, when the completion service
\* returns a statement whose leading keyword is DELETE, DROP, UPDATE, INSERT,
\* ALTER, TRUNCATE, GRANT or REVOKE, no statement is sent to the Query Executor
\* and the request does not end in success but in a rejection.
C1_DestructiveSynthesizedNeverExecuted ==
    \A r \in Reqs :
        (/\ ~NonBlankDirect(r)
         /\ \E i \in Calls(r, "completion") :
                log[r][i].ok /\ LeadingKeyword(log[r][i].res) \in DestructiveKeywords)
        => /\ Calls(r, "execute") = {}
           /\ Done(r) => (Returned(r) /\ "error" \in DOMAIN outcome[r])

\* C2: a supplied non-blank direct SQL statement whose leading keyword is outside
\* the read-only allow-list is never sent to the relational store.
C2_DirectOutsideAllowListNeverExecuted ==
    \A r \in Reqs :
        NonBlankDirect(r) =>
            \A i \in Calls(r, "execute") :
                LeadingKeyword(log[r][i].arg) \in AllowedKeywords

\* C3: a candidate made of several semicolon-separated statements is never
\* executed, whether it was synthesized or supplied.
C3_MultiStatementNeverExecuted ==
    \A r \in Reqs :
        \A i \in Calls(r, "execute") : ~MultiStatement(log[r][i].arg)

----------------------------------------------------------------------------
(* Degraded paths of the orchestrator *)

\* C4: when every embedding call of a request fails and no direct SQL statement
\* was supplied, semanticSQLExecute returns the NoRelevantSchema outcome with
\* empty results, and neither the completion service nor the Query Executor was
\* called in that request.
C4_EmbeddingFailureGivesNoRelevantSchema ==
    \A r \in Reqs :
        (Done(r) /\ EmbeddingFailed(r) /\ ~NonBlankDirect(r)) =>
            /\ Returned(r)
            /\ IsNoRelevantSchema(outcome[r])
            /\ outcome[r].results = <<>>
            /\ Calls(r, "completion") = {}
            /\ Calls(r, "execute") = {}

C4_Witness ==
    \E r \in Reqs :
        /\ Done(r) /\ EmbeddingFailed(r) /\ ~NonBlankDirect(r)
        /\ impl = "part_000"
        /\ Cardinality(Calls(r, "embedding")) = 2
        /\ column_metadata # <<>>

\* C5: a ranking whose embedding call failed is skipped: every vector-similarity
\* query in the log directly follows a successful embedding call, so a request
\* whose embedding calls all failed issues no similarity query at all.
C5_FailedEmbeddingSkipsRanking ==
    \A r \in Reqs :
        /\ \A i \in Calls(r, "similarity") :
              /\ i > 1
              /\ log[r][i - 1].svc = "embedding"
              /\ log[r][i - 1].ok
        /\ EmbeddingFailed(r) => Calls(r, "similarity") = {}

C5_Witness ==
    \E r \in Reqs :
        /\ Done(r) /\ EmbeddingFailed(r)
        /\ Calls(r, "similarity") = {}
        /\ table_metadata # <<>> /\ column_metadata # <<>>

\* C6: when every embedding call fails but a non-blank direct SQL statement was
\* supplied, that statement is the one statement sent to the store, and when the
\* store answers, its rows are returned with empty similarity metadata.
C6_DirectSQLRunsWithoutEmbedding ==
    \A r \in Reqs :
        (Done(r) /\ EmbeddingFailed(r) /\ NonBlankDirect(r)) =>
            /\ Cardinality(Calls(r, "execute")) = 1
            /\ \A i \in Calls(r, "execute") :
                  /\ log[r][i].arg = sqlStatement[r]
                  /\ log[r][i].ok =>
                        /\ Returned(r)
                        /\ IsSuccess(outcome[r])
                        /\ outcome[r].results = log[r][i].res
                        /\ outcome[r].executedQuery = sqlStatement[r]
                        /\ outcome[r].similarColumns = <<>>
                        /\ "similarTables" \in DOMAIN outcome[r]
                              => outcome[r].similarTables = <<>>

C6_Witness ==
    \E r \in Reqs :
        /\ Done(r) /\ EmbeddingFailed(r) /\ NonBlankDirect(r)
        /\ sqlStatement[r] # Trim(sqlStatement[r])
        /\ \E i \in Calls(r, "execute") : log[r][i].ok /\ log[r][i].res # <<>>
        /\ outcome[r].results # <<>>

\* C7: when column ranking yields zero columns and no direct SQL statement was
\* supplied, the request ends in NoRelevantSchema and the completion service
\* was never called.
C7_NoColumnsNoSynthesis ==
    \A r \in Reqs :
        (Done(r) /\ ~NonBlankDirect(r) /\ similarColumns[r] = <<>>) =>
            /\ Returned(r)
            /\ IsNoRelevantSchema(outcome[r])
            /\ Calls(r, "completion") = {}

C7_Witness ==
    \E r \in Reqs :
        /\ Done(r) /\ ~NonBlankDirect(r) /\ similarColumns[r] = <<>>
        /\ \E i \in Calls(r, "similarity") :
              /\ log[r][i].arg = "column_metadata"
              /\ log[r][i].ok
              /\ log[r][i].res = <<>>

\* C8: whenever the relational store fails the statement being executed,
\* synthesized or supplied, semanticSQLExecute returns an outcome that carries
\* the offending statement and the backend's error message.
C8_ExecutionFailureCarriesStatement ==
    \A r \in Reqs :
        \A i \in Calls(r, "execute") :
            ~log[r][i].ok =>
                /\ Returned(r)
                /\ CarriesStatement(outcome[r], log[r][i].arg)
                /\ CarriesMessage(outcome[r], log[r][i].res)

\* C9: when the completion call fails, the request ends at once in a
\* GenerationFailure outcome that carries the error's message, no statement was
\* sent to the Query Executor, and semanticSQLExecute returned.
C9_CompletionFailureIsGenerationFailure ==
    \A r \in Reqs :
        \A i \in Calls(r, "completion") :
            ~log[r][i].ok =>
                /\ Returned(r)
                /\ IsGenerationFailure(outcome[r])
                /\ CarriesMessage(outcome[r], log[r][i].res)
                /\ Calls(r, "execute") = {}

C9_Witness ==
    \E r \in Reqs :
        /\ Done(r)
        /\ \E i \in Calls(r, "completion") : ~log[r][i].ok
        /\ similarColumns[r] # <<>>

\* C10: every request that was received reaches done, and a request that is done
\* has returned (not thrown) an object of exactly one of the four
\* ExecutionOutcome variants, whatever calls failed on its way.
C10_EveryRequestResolves ==
    /\ \A r \in Reqs : (pc[r] # "idle") ~> Done(r)
    /\ [](\A r \in Reqs :
            Done(r) => Returned(r) /\ Cardinality(Variants(outcome[r])) = 1)

C10_Witness ==
    \E r \in Reqs :
        /\ Done(r)
        /\ \E i \in Calls(r, "schema") : ~log[r][i].ok
        /\ \E i \in Calls(r, "similarity") : ~log[r][i].ok
        /\ \E i \in Calls(r, "execute") : ~log[r][i].ok
        /\ NonBlankDirect(r)

----------------------------------------------------------------------------
(* What the caller is told *)

\* the keys of the returned object say which variant it is
ShapeVariant(o) ==
    IF "error" \notin DOMAIN o THEN "Success"
    ELSE IF DOMAIN o \cap {"generatedQuery", "executedQuery"} # {} THEN "ExecutionFailure"
    ELSE IF "similarColumns" \in DOMAIN o THEN "NoRelevantSchema"
    ELSE "GenerationFailure"

\* what happened in the request, read from the calls it made
Situation(r) ==
    IF \E i \in Calls(r, "execute") : ~log[r][i].ok THEN "ExecutionFailure"
    ELSE IF \E i \in Calls(r, "completion") : ~log[r][i].ok THEN "GenerationFailure"
    ELSE IF Calls(r, "execute") = {} THEN "NoRelevantSchema"
    ELSE "Success"

\* C11: the shape of the returned object tells the caller which situation
\* occurred (no relevant data, generation failed, execution failed at the
\* backend): requests in different situations return objects of different shapes.
C11_ShapeTellsSituation ==
    \A r \in Reqs : Done(r) => Returned(r) /\ ShapeVariant(outcome[r]) = Situation(r)

\* C12: every non-success outcome carries the similar tables and columns that
\* ranking produced for the request and, when a statement was attempted, that
\* statement.
C12_FailureCarriesContext ==
    \A r \in Reqs :
        (Done(r) /\ ~IsSuccess(outcome[r])) =>
            /\ "similarColumns" \in DOMAIN outcome[r]
            /\ outcome[r].similarColumns = similarColumns[r]
            /\ impl = "part_000" =>
                  /\ "similarTables" \in DOMAIN outcome[r]
                  /\ outcome[r].similarTables = similarTables[r]
            /\ \A i \in Calls(r, "execute") : CarriesStatement(outcome[r], log[r][i].arg)

----------------------------------------------------------------------------
(* Use of the external services within one request *)

\* C13: no retries within a request: once an embedding call or a completion call
\* has failed, that service is not called again in the request; the completion
\* service is called at most once and a statement is executed at most once.
C13_NoCallAfterFailure ==
    \A r \in Reqs :
        /\ \A svc \in {"embedding", "completion"} :
              \A i \in Calls(r, svc) :
                  ~log[r][i].ok => \A j \in Calls(r, svc) : j <= i
        /\ Cardinality(Calls(r, "completion")) <= 1
        /\ Cardinality(Calls(r, "execute")) <= 1

\* the similarity queries of request r against a relation
Rankings(r, rel) == {i \in Calls(r, "similarity") : log[r][i].arg = rel}

\* C14: in the revision that ranks both tables and columns, one request ranks
\* both against the same query vector: either both similarity queries are issued
\* or neither, and every embedding the request obtained is the same vector.
C14_BothRankingsSameVector ==
    \A r \in Reqs :
        (Done(r) /\ impl = "part_000") =>
            /\ Rankings(r, "table_metadata") = {} <=> Rankings(r, "column_metadata") = {}
            /\ \A i, j \in Calls(r, "embedding") : log[r][i].res = log[r][j].res

\* what the ranking of a relation produced in request r
Ranked(r, rel) ==
    IF \E i \in Rankings(r, rel) : log[r][i].ok
    THEN log[r][CHOOSE i \in Rankings(r, rel) : log[r][i].ok].res
    ELSE <<>>

\* C15: when a non-blank direct SQL statement is supplied, the completion
\* service is never called, the one statement sent to the store is exactly the
\* supplied one, and the successful response holds the tables and columns that
\* ranking produced for the natural-language query.
C15_DirectSQLBypassesSynthesis ==
    \A r \in Reqs :
        NonBlankDirect(r) =>
            /\ Calls(r, "completion") = {}
            /\ Cardinality(Calls(r, "execute")) <= 1
            /\ \A i \in Calls(r, "execute") : log[r][i].arg = sqlStatement[r]
            /\ Done(r) => Cardinality(Calls(r, "execute")) = 1
            /\ (Done(r) /\ IsSuccess(outcome[r])) =>
                  /\ outcome[r].executedQuery = sqlStatement[r]
                  /\ outcome[r].similarColumns = Ranked(r, "column_metadata")
                  /\ impl = "part_000" =>
                        /\ "similarTables" \in DOMAIN outcome[r]
                        /\ outcome[r].similarTables = Ranked(r, "table_metadata")

C15_Witness ==
    \E r \in Reqs :
        /\ NonBlankDirect(r) /\ Done(r) /\ IsSuccess(outcome[r])
        /\ impl = "part_000"
        /\ Len(outcome[r].similarTables) = 2
        /\ Len(outcome[r].similarColumns) = 3

----------------------------------------------------------------------------
(* The ranking queries *)

\* the answered ranking queries of request r
Answered(r) == {i \in Calls(r, "similarity") : log[r][i].ok}

\* the relation a ranking query read
Candidates(rel) == IF rel = "table_metadata" THEN table_metadata ELSE column_metadata

\* C16: in every ranked result the similarities do not increase: of two rows at
\* positions i < j the earlier has a similarity at least as large as the later,
\* also when some stored rows have no embedding yet (a row without a similarity
\* is not ahead of a row that has one)
C16_RankedByNonIncreasingSimilarity ==
    \A r \in Reqs : \A e \in Answered(r) :
       LET res == log[r][e].res
       IN  \A i, j \in 1..Len(res) :
              (i < j /\ res[j].similarity # <<>>)
                 => /\ res[i].similarity # <<>>
                    /\ res[i].similarity[1] >= res[j].similarity[1]

\* the length the claims give a ranked result: the smaller of k and n
Smaller(k, n) == IF n < k THEN n ELSE k

\* C17 as stated: a ranked result has exactly min(k, |candidates|) rows, k = 5
\* for tables and k = 10 for columns, and none when there are no candidates
C17_LengthIsMinOfFiveOrTen ==
    \A r \in Reqs : \A e \in Answered(r) :
       Len(log[r][e].res) =
          Smaller(IF log[r][e].arg = "table_metadata" THEN 5 ELSE 10,
                  Len(Candidates(log[r][e].arg)))

\* C17, amended: a ranked result has exactly min(k, |candidates|) rows, k = 5
\* for tables, k = 10 for columns in the full server and k = 5 for columns in
\* the earlier revision Index.js, and none when there are no candidates
C17_LengthIsMinOfLimit ==
    \A r \in Reqs : \A e \in Answered(r) :
       Len(log[r][e].res) =
          Smaller(IF log[r][e].arg = "table_metadata" THEN 5
                  ELSE IF impl = "part_000" THEN 10 ELSE 5,
                  Len(Candidates(log[r][e].arg)))

\* the column ranking of the full server cuts its result: eleven columns give
\* ten rows
C17_Witness ==
    /\ impl = "part_000"
    /\ Len(column_metadata) > 10
    /\ \E r \in Reqs : \E e \in Answered(r) :
          /\ log[r][e].arg = "column_metadata" /\ Len(log[r][e].res) = 10
             /\ tool[r] = "find_similar_columns" /\ Done(r)

\* the place of a ranked row in the relation it was read from
Position(rel, row) ==
    CHOOSE n \in 1..Len(Candidates(rel)) :
       /\ Candidates(rel)[n].table_name = row.table_name
       /\ rel = "column_metadata" => Candidates(rel)[n].column_name = row.column_name

\* C18: two candidates of equal similarity keep the order in which the relation
\* enumerates them, so the same candidates and query give one sequence
C18_TiesKeepEnumerationOrder ==
    \A r \in Reqs : \A e \in Answered(r) :
       LET res == log[r][e].res
       IN  \A i, j \in 1..Len(res) :
              (i < j /\ res[i].similarity = res[j].similarity)
                 => Position(log[r][e].arg, res[i]) < Position(log[r][e].arg, res[j])

\* what findSimilarTables (rel = "table_metadata") or findSimilarColumns
\* returned to its caller in request r
Found(r, rel) == IF rel = "table_metadata" THEN similarTables[r] ELSE similarColumns[r]

\* request r got no candidates of rel: the relation is empty, the embedding of
\* the query failed, or the ranking query failed
NothingRanked(r, rel) ==
    \/ Candidates(rel) = <<>>
    \/ \A e \in Answered(r) : log[r][e].arg # rel

\* C19: findSimilarTables and findSimilarColumns never throw; with no
\* candidates, a failed query embedding or a failed ranking query they return
\* the empty list; a find_similar tool answers with that list as its result,
\* without an error, and execute_query answers with the NoRelevantSchema result
\* when it has no columns and no direct statement
C19_NothingRankedIsNotAnError ==
    \A r \in Reqs : Done(r) =>
       /\ \A rel \in {"table_metadata", "column_metadata"} :
             NothingRanked(r, rel) => Found(r, rel) = <<>>
       /\ (impl = "part_000" /\ tool[r] = "find_similar_tables")
             => response[r] = [result |-> similarTables[r]]
       /\ (impl = "part_000" /\ tool[r] = "find_similar_columns")
             => response[r] = [result |-> similarColumns[r]]
       /\ (tool[r] = "execute_query" /\ similarColumns[r] = <<>> /\ ~NonBlankDirect(r))
             => Returned(r) /\ IsNoRelevantSchema(outcome[r])

\* a find_similar_tables call whose ranking query failed over a store that has
\* tables, answered with the empty list
C19_Witness ==
    \E r \in Reqs :
       /\ tool[r] = "find_similar_tables"
       /\ Done(r)
       /\ table_metadata # <<>>
       /\ \E e \in Calls(r, "similarity") : ~log[r][e].ok
       /\ response[r] = [result |-> <<>>]

----------------------------------------------------------------------------
(* The schema context of the prompt *)

\* the place of the first column of table name in the ranked columns
FirstColumnOf(columns, name) ==
    CHOOSE i \in 1..Len(columns) :
       /\ columns[i].table_name = name
       /\ \A j \in 1..(i - 1) : columns[j].table_name # name

\* C20: in the schema context of the prompt the table groups come in the order
\* in which the first column of each table comes in the ranked columns,
\* whatever the tables are called
C20_GroupsFollowRankedColumns ==
    \A r \in Reqs : \A e \in Calls(r, "completion") :
       LET groups == log[r][e].arg.tables
       IN  \A i, j \in 1..Len(groups) :
              i < j => FirstColumnOf(similarColumns[r], groups[i].name)
                          < FirstColumnOf(similarColumns[r], groups[j].name)

\* the schema contexts request r sent to the completion service
Contexts(r) == {log[r][e].arg.tables : e \in Calls(r, "completion")}

\* request r called generateSQLWithClaude and the call is over
Synthesized(r) ==
    /\ impl = "part_000"
    /\ tool[r] = "execute_query"
    /\ pc[r] \in {"executeGenerated", "done"}
    /\ ~NonBlankDirect(r)
    /\ similarColumns[r] # <<>>

\* C21: every table that owns a ranked column is exactly one group of the
\* assembled context, whether or not it is among the ranked tables, and no
\* group is of a table without a ranked column
C21_EveryRankedTableIsOneGroup ==
    \A r \in Reqs : Synthesized(r) =>
       /\ Contexts(r) # {}
       /\ \A groups \in Contexts(r) :
             /\ \A i \in 1..Len(similarColumns[r]) :
                   Cardinality({g \in 1..Len(groups) :
                                  groups[g].name = similarColumns[r][i].table_name}) = 1
             /\ \A g \in 1..Len(groups) :
                   \E i \in 1..Len(similarColumns[r]) :
                      similarColumns[r][i].table_name = groups[g].name

\* the description of table name in the schema the request read: that of the
\* first row of the table, "" when there is no row or the row has none
SchemaDescription(schema, name) ==
    LET rows == {i \in 1..Len(schema.tables) : schema.tables[i].table_name = name}
    IN  IF rows = {} THEN ""
        ELSE LET first == CHOOSE i \in rows : \A j \in rows : i <= j
             IN  IF schema.tables[first].description \in {null, ""}
                 THEN "" ELSE schema.tables[first].description

\* C22 as stated: the description of a group is the one the schema has for the
\* table, and it is the empty string when the table has none or is not among
\* the ranked tables
C22_DescriptionBlankWhenNotRanked ==
    \A r \in Reqs : \A groups \in Contexts(r) : \A g \in 1..Len(groups) :
       /\ groups[g].description \in
             {"", SchemaDescription(databaseSchema[r], groups[g].name)}
       /\ (\A t \in 1..Len(similarTables[r]) :
              similarTables[r][t].table_name # groups[g].name)
             => groups[g].description = ""

\* C22, amended: the description of a group is the one the schema has for the
\* table, and it is the empty string when the table has none or is absent from
\* the schema; the ranked tables play no part
C22_DescriptionFromSchema ==
    \A r \in Reqs : \A groups \in Contexts(r) : \A g \in 1..Len(groups) :
       groups[g].description = SchemaDescription(databaseSchema[r], groups[g].name)

\* a context with a described group of a table that is not among the ranked
\* tables
C22_Witness ==
    \E r \in Reqs : \E groups \in Contexts(r) : \E g \in 1..Len(groups) :
       /\ groups[g].description = "customer information"
       /\ similarTables[r] = <<>>

----------------------------------------------------------------------------
(* The statement handed to the store, and the order of the steps *)

\* no direct statement was supplied: absent, empty or only whitespace
Blank(stmt) == stmt = undefined \/ \A i \in 1..Len(stmt) : stmt[i] \in Whitespace

\* C25: the statement extracted from the completion response has no
\* surrounding whitespace and no wrapping: when the response wraps the
\* statement in code-fence markers, the statement sent on does not contain them
C25_ExtractedSQLHasNoFence ==
    \A r \in Reqs : \A e \in Calls(r, "execute") :
       Blank(sqlStatement[r]) =>
          /\ \A i \in 1..Len(log[r][e].arg) : log[r][e].arg[i] # Fence
          /\ log[r][e].arg # <<>> =>
                /\ log[r][e].arg[1] \notin Whitespace
                /\ log[r][e].arg[Len(log[r][e].arg)] \notin Whitespace

\* getDatabaseSchema of request r was over before step x
SchemaReadBefore(r, x) ==
    \E i \in Calls(r, "schema") :
       /\ i < x
       /\ log[r][i].arg = "table_metadata"
       /\ log[r][i].ok =>
             \E j \in Calls(r, "schema") : i < j /\ j < x /\ log[r][j].arg = "column_metadata"

\* the ranking of rel in request r was over before step x: its embedding call
\* failed, or its query was answered or failed
RankedBefore(r, rel, x) ==
    LET calls == Calls(r, "embedding")
        i == IF rel = "table_metadata"
             THEN CHOOSE c \in calls : \A d \in calls : c <= d
             ELSE CHOOSE c \in calls : \A d \in calls : c >= d
    IN  /\ Cardinality(calls) = IF impl = "part_000" THEN 2 ELSE 1
        /\ i < x
        /\ log[r][i].ok =>
              /\ i + 1 < x
              /\ log[r][i + 1].svc = "similarity"
              /\ log[r][i + 1].arg = rel

\* C28: a statement is sent to the store only after the schema read, the table
\* ranking and the column ranking of the request are over, each with rows or
\* with its empty fallback, and after the synthesis when there is one; the
\* earlier revision has the column ranking only
C28_ExecutionComesLast ==
    \A r \in Reqs : \A x \in Calls(r, "execute") :
       /\ x = Len(log[r])
       /\ impl = "part_000" =>
             /\ SchemaReadBefore(r, x)
             /\ RankedBefore(r, "table_metadata", x)
       /\ RankedBefore(r, "column_metadata", x)
       /\ \A c \in Calls(r, "completion") : c < x /\ log[r][c].ok
       /\ (impl = "part_000" /\ Blank(sqlStatement[r])) => Calls(r, "completion") # {}

\* a direct statement executed after both rankings returned rows
C28_Witness ==
    \E r \in Reqs :
       /\ impl = "part_000"
       /\ Done(r)
       /\ ~Blank(sqlStatement[r])
       /\ Calls(r, "execute") # {}
       /\ Cardinality({i \in Calls(r, "similarity") : log[r][i].ok}) = 2

\* the schema request r read, as its two queries answered
SchemaReadOf(r) ==
    IF \A i \in Calls(r, "schema") : log[r][i].ok
    THEN [tables |-> IF \E i \in Calls(r, "schema") : log[r][i].arg = "table_metadata"
                     THEN log[r][CHOOSE i \in Calls(r, "schema") :
                                    log[r][i].arg = "table_metadata"].res
                     ELSE <<>>,
          columns |-> IF \E i \in Calls(r, "schema") : log[r][i].arg = "column_metadata"
                      THEN log[r][CHOOSE i \in Calls(r, "schema") :
                                     log[r][i].arg = "column_metadata"].res
                      ELSE <<>>]
    ELSE EmptySchema

\* C29: assembly and synthesis leave their arguments as they were: after the
\* call the ranked tables, the ranked columns and the schema are what ranking
\* and the schema read produced, and the metadata in the returned object is
\* exactly that, entities, order and scores
C29_SynthesisLeavesInputs ==
    \A r \in Reqs : Synthesized(r) =>
       /\ similarTables[r] = Ranked(r, "table_metadata")
       /\ similarColumns[r] = Ranked(r, "column_metadata")
       /\ databaseSchema[r] = SchemaReadOf(r)
       /\ (Done(r) /\ "similarColumns" \in DOMAIN outcome[r]) =>
             /\ outcome[r].similarColumns = Ranked(r, "column_metadata")
             /\ outcome[r].similarTables = Ranked(r, "table_metadata")

\* a synthesized statement failed in the store and the returned object holds
\* three scored columns
C29_Witness ==
    \E r \in Reqs :
       /\ Synthesized(r) /\ Done(r)
       /\ "generatedQuery" \in DOMAIN outcome[r]
       /\ Len(outcome[r].similarColumns) = 3
       /\ \A i \in 1..3 : outcome[r].similarColumns[i].similarity # <<>>

\* C30: a direct statement that is absent, empty or only whitespace counts as
\* not supplied: the request synthesizes its statement or ends with the
\* NoRelevantSchema result, and the blank text is never sent to the store
C30_BlankDirectIsNotSupplied ==
    \A r \in Reqs : (tool[r] = "execute_query" /\ Blank(sqlStatement[r])) =>
       /\ \A e \in Calls(r, "execute") :
             /\ ~Blank(log[r][e].arg)
             /\ log[r][e].arg = generatedSQL[r]
             /\ impl = "part_000" => \E c \in Calls(r, "completion") : c < e /\ log[r][c].ok
       /\ (Done(r) /\ similarColumns[r] = <<>>) =>
             /\ Calls(r, "execute") = {}
             /\ IsNoRelevantSchema(outcome[r])

\* a request with a whitespace-only direct statement whose synthesized
\* statement was executed
C30_Witness ==
    \E r \in Reqs :
       /\ Done(r)
       /\ sqlStatement[r] = <<" ">>
       /\ \E e \in Calls(r, "execute") : log[r][e].ok
       /\ IsSuccess(outcome[r])

----------------------------------------------------------------------------
(* Two requests at a time *)

\* the calls of request r to the completion service or the store that failed
FailedCalls(r) == {i \in Calls(r, "completion") \cup Calls(r, "execute") : ~log[r][i].ok}

\* C26: no state is shared between requests: when two requests interleave at
\* their awaits, what each returns is made of its own arguments and of the
\* answers its own calls got (rows, statement, ranked tables and columns,
\* error), and two requests with the same arguments and the same answers return
\* the same
C26_OutcomeFromOwnAnswers ==
    \A r \in Reqs : Done(r) =>
       /\ Returned(r)
       /\ "similarColumns" \in DOMAIN outcome[r]
             => outcome[r].similarColumns = Ranked(r, "column_metadata")
       /\ "similarTables" \in DOMAIN outcome[r]
             => outcome[r].similarTables = Ranked(r, "table_metadata")
       /\ IsSuccess(outcome[r]) <=> \E e \in Calls(r, "execute") : log[r][e].ok
       /\ \A e \in Calls(r, "execute") :
             log[r][e].ok => /\ outcome[r].results = log[r][e].res
                             /\ outcome[r].executedQuery = log[r][e].arg
       /\ \A e \in FailedCalls(r) : CarriesMessage(outcome[r], log[r][e].res)
       /\ \A q \in Reqs :
             (/\ Done(q)
              /\ query[q] = query[r]
              /\ sqlStatement[q] = sqlStatement[r]
              /\ log[q] = log[r]) => outcome[q] = outcome[r]

\* both requests are over, one with rows and one with a failed statement
C26_Witness ==
    /\ Done("r1") /\ Done("r2")
    /\ IsSuccess(outcome["r1"]) /\ outcome["r1"].results # <<>>
    /\ \E e \in Calls("r2", "execute") : ~log["r2"][e].ok
    /\ "error" \in DOMAIN outcome["r2"]

----------------------------------------------------------------------------
(* Startup *)

\* the rows of a relation that have no embedding
Unembedded(rel) == {i \in 1..Len(rel) : rel[i].embedding = NullVec}

\* C27: the startup backfill covers both kinds of metadata: when the store was
\* reachable and every embedding call succeeded, no row of table_metadata and
\* no row of column_metadata is without embedding once the server serves
C27_BackfillCoversBothKinds ==
    (/\ phase = "serving"
     /\ \A i \in 1..Len(bootLog) : bootLog[i].ok)
       => /\ Unembedded(table_metadata) = {}
          /\ Unembedded(column_metadata) = {}

----------------------------------------------------------------------------
(* A failed schema read *)

\* a query of getDatabaseSchema failed in request r
SchemaReadFailed(r) == \E i \in Calls(r, "schema") : ~log[r][i].ok

\* C31: a failed read of the schema metadata does not fail the request:
\* getDatabaseSchema gives empty table and column lists, both rankings and the
\* synthesis still take place, and every table group of the context has the
\* empty description
C31_SchemaFailureIsTolerated ==
    \A r \in Reqs : (impl = "part_000" /\ SchemaReadFailed(r)) =>
       /\ databaseSchema[r] = [tables |-> <<>>, columns |-> <<>>]
       /\ \A groups \in Contexts(r) : \A g \in 1..Len(groups) : groups[g].description = ""
       /\ Done(r) =>
             /\ Returned(r)
             /\ Cardinality(Calls(r, "embedding")) = 2
             /\ (Blank(sqlStatement[r]) /\ similarColumns[r] # <<>>) => Contexts(r) # {}
             /\ (\E e \in Calls(r, "execute") : log[r][e].ok) => IsSuccess(outcome[r])

\* the second schema query failed, and the request went on to rank, to
\* synthesize for a described table and to return rows
C31_Witness ==
    \E r \in Reqs :
       /\ impl = "part_000"
       /\ Done(r)
       /\ \E i \in Calls(r, "schema") : log[r][i].arg = "column_metadata" /\ ~log[r][i].ok
       /\ \E groups \in Contexts(r) : \E g \in 1..Len(groups) : groups[g].name = "customers"
       /\ \E t \in 1..Len(table_metadata) :
             /\ table_metadata[t].table_name = "customers"
             /\ table_metadata[t].description = "customer information"
       /\ IsSuccess(outcome[r])

----------------------------------------------------------------------------
(* The startup backfill *)

\* the calls of the startup routine to one service
BootCalls(svc) == {k \in 1..Len(bootLog) : bootLog[k].svc = svc}

\* the embedding calls made for row i of column_metadata
EmbeddingCallsFor(i) ==
    {k \in BootCalls("embedding") : bootLog[k].arg = DescriptorText(column_metadata[i])}

\* a step of the startup routine writes an embedding only into a row that had
\* none, and writes the vector an embedding call for that row returned; it
\* changes nothing else of the two relations
WritesOnlyMissing ==
    /\ table_metadata' = table_metadata
    /\ Len(column_metadata') = Len(column_metadata)
    /\ \A i \in 1..Len(column_metadata) :
          column_metadata'[i] # column_metadata[i] =>
             /\ column_metadata[i].embedding = NullVec
             /\ column_metadata'[i] =
                   [column_metadata[i] EXCEPT !.embedding = column_metadata'[i].embedding]
             /\ \E k \in EmbeddingCallsFor(i) :
                   bootLog[k].ok /\ bootLog[k].res = column_metadata'[i].embedding

\* a row whose embedding call failed has no embedding, and once the loop is
\* over every row the query returned has had its call, whatever calls failed
FailedCallsAreSkipped ==
    /\ \A i \in 1..Len(column_metadata) :
          (\E k \in EmbeddingCallsFor(i) : ~bootLog[k].ok)
             => column_metadata[i].embedding = NullVec
    /\ phase = "serving" =>
          \A q \in BootCalls("missing") :
             Cardinality(BootCalls("embedding")) = Len(bootLog[q].res)
    /\ phase = "exited" => bootLog[Len(bootLog)].svc # "embedding"

\* C32: during the startup backfill the embedding of a row is written only if
\* it was missing and the row's embedding call succeeded: a row whose call
\* failed stays without embedding, a row that had an embedding is never
\* overwritten, and a failed call does not keep the loop from the other rows
C32_BackfillWritesOnlyMissing ==
    [][WritesOnlyMissing]_vars /\ []FailedCallsAreSkipped

\* the server serves after a backfill in which one embedding call failed and a
\* later row got its embedding
C32_Witness ==
    /\ phase = "serving"
    /\ \E k, u \in 1..Len(bootLog) :
          /\ k < u
          /\ bootLog[k].svc = "embedding" /\ ~bootLog[k].ok
          /\ bootLog[u].svc = "update" /\ bootLog[u].ok
    /\ \E i, j \in 1..Len(column_metadata) :
          /\ column_metadata[i].embedding = NullVec
          /\ column_metadata[j].table_name = "t1"
          /\ column_metadata[j].embedding # NullVec

\* C33: the server listens only after the connection succeeded and the backfill
\* loop is over; when the connection or a store query of the backfill fails the
\* process exits and the server never listens
C33_ListensOnlyAfterBackfill ==
    /\ phase = "serving" =>
          /\ \E k \in BootCalls("connect") : bootLog[k].ok
          /\ \E q \in BootCalls("missing") :
                /\ bootLog[q].ok
                /\ Cardinality(BootCalls("embedding")) = Len(bootLog[q].res)
          /\ missing = <<>>
          /\ \A k \in 1..Len(bootLog) :
                bootLog[k].svc \in {"connect", "missing", "update"} => bootLog[k].ok
    /\ (\E k \in 1..Len(bootLog) :
           bootLog[k].svc \in {"connect", "missing", "update"} /\ ~bootLog[k].ok)
          => phase = "exited"

\* the process exited on a failed UPDATE after an earlier row was written
C33_Witness ==
    /\ phase = "exited"
    /\ bootLog[Len(bootLog)].svc = "update"
    /\ \E u \in BootCalls("update") : bootLog[u].ok

============================================================================
